---- MODULE Spec2Model ----
(***************************************************************************)
(* Model of downloader.py: downloadSegments, the segment resolution and    *)
(* parallel fetch-with-validation pipeline of op-replay-clipper.           *)
(*                                                                         *)
(* One invocation of downloadSegments is a walk of `pc` through the        *)
(* phases of the function body.  The file-list and route-info responses    *)
(* are inputs of the steps that issue the requests; the parfive batch is   *)
(* a set of transfers that start and finish in any order; bzip2 is an      *)
(* external command whose exit status the code never reads.                *)
(***************************************************************************)
EXTENDS Integers, Sequences, FiniteSets, TLC

(***************************************************************************)
(* Bounds of the model.                                                    *)
(***************************************************************************)
\* Number of invocations of downloadSegments on the same data_dir.
MaxRuns == 2
\* Longest manifest / route-info the server answers with, in segments.
MaxRouteSegs == 2
\* Ranges of the arguments under which the window mapper is checked alone.
MaxStartSeconds == 121
MaxLength == 61
MaxSmear == 20
\* Longest route_or_segment string of the parsing specification.
MaxRouteLen == 6

(***************************************************************************)
(* Program constants.                                                      *)
(***************************************************************************)
\* "Segments start from index 0 and are 60 seconds long"
SegmentSeconds == 60
\* parfive.Downloader(max_conn=20)
max_conn == 20
\* route_files_response.status_code != 200
StatusOK == 200

valid_file_types == <<"cameras", "ecameras", "dcameras", "logs">>

\* Canonical local file name of each file kind.
FileName ==
  [cameras |-> "fcamera.hevc", ecameras |-> "ecamera.hevc",
   dcameras |-> "dcamera.hevc", logs |-> "rlog.bz2"]

CameraKinds == {"cameras", "ecameras", "dcameras"}

Range(s) == {s[i] : i \in DOMAIN s}

Max(a, b) == IF a >= b THEN a ELSE b

(***************************************************************************)
(* State.                                                                  *)
(***************************************************************************)
VARIABLES
  file_types,      \* argument: list of requested file kinds
  start_seconds,   \* argument
  length,          \* argument
  smear_seconds,   \* argument
  route_or_segment, \* argument, as the sequence of its characters
  route,           \* route_or_segment without its segment suffix
  dongle_id,       \* the part of route before the first "|"
  fs,              \* files under data_dir: set of <<segment_id, file name>>
  pc,              \* position of the control thread in downloadSegments
  run,             \* number of the current invocation
  segment_ids,     \* list(range(start_segment, end_segment + 1))
  filelist,        \* the manifest, once fetched
  route_times,     \* <<route_start_time, route_end_time>>, once looked up
  requests,        \* requests.get calls issued by this invocation, in order
  queue,           \* tasks enqueued on the parfive Downloader, in order
  inflight,        \* indices of queue whose transfer has started, not ended
  succeeded,       \* indices of queue whose transfer ended without error
  errors,          \* results.errors: indices of queue whose transfer failed
  written,         \* indices of queue whose transfer wrote its file
  bzip2_calls,     \* segments on which bzip2 -d was run, in order
  di,              \* index of the decompression loop into segment_ids
  err              \* the exception that ended the invocation, if any

vars ==
  <<file_types, start_seconds, length, smear_seconds, route_or_segment, route,
    dongle_id, fs, pc, run, segment_ids, filelist, route_times, requests, queue, inflight,
    succeeded, errors, written, bzip2_calls, di, err>>

args == <<file_types, start_seconds, length, smear_seconds, route_or_segment>>

parsed == <<route, dongle_id>>

NoError == [kind |-> "none", segment |-> -1, file_type |-> "", errors |-> {}]

Error(kind, segment, file_type, errs) ==
  [kind |-> kind, segment |-> segment, file_type |-> file_type, errors |-> errs]

\* One requests.get call and the status of its response.
Request(endpoint, status_code) == [endpoint |-> endpoint, status_code |-> status_code]

NoFileList == [cameras |-> <<>>, ecameras |-> <<>>, dcameras |-> <<>>, logs |-> <<>>]

(***************************************************************************)
(* Window-to-segment mapping (lines 63-72).                                *)
(***************************************************************************)
StartSegment(start, smear) == Max(0, start - smear) \div SegmentSeconds

EndSegment(start, len) == (start + len) \div SegmentSeconds

\* list(range(a, b)): a, a+1, ..., b-1; empty when b <= a.
PyRange(a, b) == [i \in 1..(b - a) |-> a + i - 1]

SegmentIdsExclusive(start, len, smear) ==
  PyRange(StartSegment(start, smear), EndSegment(start, len))

SegmentIds(start, len, smear) ==
  PyRange(StartSegment(start, smear), EndSegment(start, len) + 1)

start_segment == StartSegment(start_seconds, smear_seconds)

end_segment == EndSegment(start_seconds, length)

(***************************************************************************)
(* Route parsing (lines 54-61).  A string is the sequence of its           *)
(* characters.                                                             *)
(***************************************************************************)
IsDigit(c) == c \in {"0", "1", "2", "3", "4", "5", "6", "7", "8", "9"}

\* Length of the longest run of digits that ends the string.
TrailingDigits(s) ==
  CHOOSE k \in 0..Len(s) :
    /\ \A i \in (Len(s) - k + 1)..Len(s) : IsDigit(s[i])
    /\ k < Len(s) => ~IsDigit(s[Len(s) - k])

\* r"--\d+" matches up to the very end of s.
EndsWithSegment(s) ==
  LET k == TrailingDigits(s)
  IN  /\ k >= 1
      /\ Len(s) >= k + 2
      /\ s[Len(s) - k] = "-"
      /\ s[Len(s) - k - 1] = "-"

CutSegment(s) == SubSeq(s, 1, Len(s) - TrailingDigits(s) - 2)

CutDigits(s) == SubSeq(s, 1, Len(s) - TrailingDigits(s))

Front(s) == SubSeq(s, 1, Len(s) - 1)

\* re.sub(r"--\d+$", "", s): $ matches at the end of the string and before a
\* newline that ends the string.
ReSubKeepsDashes(s) ==
  IF EndsWithSegment(s)
    THEN CutDigits(s)
    ELSE IF s # <<>> /\ s[Len(s)] = "\n" /\ EndsWithSegment(Front(s))
           THEN CutDigits(Front(s)) \o <<"\n">>
           ELSE s

ReSubSegment(s) ==
  IF EndsWithSegment(s)
    THEN CutSegment(s)
    ELSE IF s # <<>> /\ s[Len(s)] = "\n" /\ EndsWithSegment(Front(s))
           THEN CutSegment(Front(s)) \o <<"\n">>
           ELSE s

\* s.split(sep)[0]
SplitFirst(s, sep) ==
  IF \E i \in DOMAIN s : s[i] = sep
    THEN SubSeq(s, 1, (CHOOSE i \in DOMAIN s : s[i] = sep /\ \A j \in 1..(i - 1) : s[j] # sep) - 1)
    ELSE s

\* "abc123|2023-07-27--13-01-19--5"
ExampleSegment ==
  <<"a", "b", "c", "1", "2", "3", "|", "2", "0", "2", "3", "-", "0", "7", "-", "2", "7", "-", "-", "1", "3", "-", "0", "1", "-", "1", "9", "-", "-", "5">>

(***************************************************************************)
(* URLs of the manifest.  A URL is the sequence of its path components,    *)
(* and f"/{segment_id}/{name}" in url holds when the decimal segment index *)
(* and the file name are adjacent components.                              *)
(***************************************************************************)
Digit == <<"0", "1", "2", "3", "4", "5", "6", "7", "8", "9">>

RECURSIVE SegStr(_)
SegStr(n) == IF n < 10 THEN Digit[n + 1] ELSE SegStr(n \div 10) \o Digit[(n % 10) + 1]

UrlContains(url, segment_id, name) ==
  \E i \in 1..(Len(url) - 1) : url[i] = SegStr(segment_id) /\ url[i + 1] = name

\* for url in urls: if f"/{segment_id}/{name}" in url: ...; break
Matches(urls, segment_id, name) ==
  SelectSeq(urls, LAMBDA u : UrlContains(u, segment_id, name))

(***************************************************************************)
(* Validation of file_types (lines 48-52).                                 *)
(***************************************************************************)
InvalidTypes(ft) == SelectSeq(ft, LAMBDA t : t \notin Range(valid_file_types))

(***************************************************************************)
(* Availability validation (lines 102-136).                                *)
(***************************************************************************)
CheckOrderLogsFirst == <<"logs", "cameras", "ecameras", "dcameras">>

\* The order of the four `if not ..._exists and ... in file_types` tests.
CheckOrder == <<"cameras", "ecameras", "dcameras", "logs">>

MissingKindsAnyKind(fl, ft, segment_id) ==
  SelectSeq(CheckOrder, LAMBDA k : Matches(fl[k], segment_id, FileName[k]) = <<>>)

MissingKinds(fl, ft, segment_id) ==
  SelectSeq(CheckOrder,
            LAMBDA k : Matches(fl[k], segment_id, FileName[k]) = <<>> /\ k \in Range(ft))

\* <<segment_id, kind>> of the first raise of the loop, or <<>> when it ends.
FirstMissing(fl, ft, segs) ==
  LET bad == SelectSeq(segs, LAMBDA s : MissingKinds(fl, ft, s) # <<>>)
  IN  IF bad = <<>> THEN <<>> ELSE <<bad[1], MissingKinds(fl, ft, bad[1])[1]>>

(***************************************************************************)
(* Building the batch (lines 152-190).                                     *)
(***************************************************************************)
Task(url, segment_id, filename, overwrite) ==
  [url |-> url, segment |-> segment_id, filename |-> filename, overwrite |-> overwrite]

\* Lines 159-180: the first matching URL is enqueued and the loop breaks.
CameraTasksNoBreak(fl, ft, segment_id, kind) ==
  LET m == Matches(fl[kind], segment_id, FileName[kind])
  IN  IF kind \in Range(ft)
        THEN [i \in DOMAIN m |-> Task(m[i], segment_id, FileName[kind], "False")]
        ELSE <<>>

CameraTasksLastMatch(fl, ft, segment_id, kind) ==
  LET m == Matches(fl[kind], segment_id, FileName[kind])
  IN  IF m # <<>> /\ kind \in Range(ft)
        THEN <<Task(m[Len(m)], segment_id, FileName[kind], "False")>>
        ELSE <<>>

CameraTasks(fl, ft, segment_id, kind) ==
  LET m == Matches(fl[kind], segment_id, FileName[kind])
  IN  IF m # <<>> /\ kind \in Range(ft)
        THEN <<Task(m[1], segment_id, FileName[kind], "False")>>
        ELSE <<>>

LogTasksIgnoringRlog(fl, ft, segment_id, files) ==
  LET m == Matches(fl.logs, segment_id, "rlog.bz2")
  IN  IF m # <<>> /\ "logs" \in Range(ft)
        THEN IF <<segment_id, "rlog.bz2">> \in files
               THEN <<>>
               ELSE <<Task(m[1], segment_id, "rlog.bz2", "None")>>
        ELSE <<>>

LogTasks(fl, ft, segment_id, files) ==
  LET m == Matches(fl.logs, segment_id, "rlog.bz2")
  IN  IF m # <<>> /\ "logs" \in Range(ft)
        THEN IF <<segment_id, "rlog.bz2">> \in files \/ <<segment_id, "rlog">> \in files
               THEN <<>>
               ELSE <<Task(m[1], segment_id, "rlog.bz2", "None")>>
        ELSE <<>>

SegmentTasks(fl, ft, segment_id, files) ==
  CameraTasks(fl, ft, segment_id, "cameras")
    \o CameraTasks(fl, ft, segment_id, "ecameras")
    \o CameraTasks(fl, ft, segment_id, "dcameras")
    \o LogTasks(fl, ft, segment_id, files)

RECURSIVE EnqueueAll(_, _, _, _)
EnqueueAll(fl, ft, segs, files) ==
  IF segs = <<>>
    THEN <<>>
    ELSE SegmentTasks(fl, ft, Head(segs), files) \o EnqueueAll(fl, ft, Tail(segs), files)

(***************************************************************************)
(* What the server may answer.                                             *)
(***************************************************************************)
Url(segment_id, kind, sig) == <<"commadata2", SegStr(segment_id), FileName[kind], sig>>

\* The uploads of a route of n segments, as <<segment, signature>> in the
\* order of the listing: ascending, descending, and ascending with every
\* segment listed a second time under a fresh signature.
Listings(n) ==
  { [i \in 1..n |-> <<i - 1, "sigA">>],
    [i \in 1..n |-> <<n - i, "sigA">>],
    [i \in 1..n |-> <<i - 1, "sigA">>] \o [i \in 1..n |-> <<i - 1, "sigB">>] }

\* At most one (segment, kind) of the route has not been uploaded.
NotUploaded(n) ==
  {{}} \cup {{<<s, k>>} : s \in 0..(n - 1), k \in Range(valid_file_types)}

Manifest(listing, missing) ==
  [k \in Range(valid_file_types) |->
     LET up == SelectSeq(listing, LAMBDA e : <<e[1], k>> \notin missing)
     IN  [i \in DOMAIN up |-> Url(up[i][1], k, up[i][2])]]

FileListResponses ==
  {[status_code |-> 404, json |-> NoFileList], [status_code |-> 500, json |-> NoFileList]}
    \cup {[status_code |-> StatusOK, json |-> Manifest(l, m)] :
            l \in UNION {Listings(n) : n \in 0..MaxRouteSegs},
            m \in NotUploaded(MaxRouteSegs)}

RouteInfo(n) ==
  [segment_start_times |-> [i \in 1..n |-> 1000 + SegmentSeconds * (i - 1)],
   segment_end_times |-> [i \in 1..n |-> 1000 + SegmentSeconds * i]]

RouteInfoArrays == {RouteInfo(n) : n \in 0..MaxRouteSegs}

\* Bodies without one or both of the arrays.
NoRouteInfo == [error |-> "not found"]

StartTimesOnly == [segment_start_times |-> RouteInfo(MaxRouteSegs).segment_start_times]

\* The answers to the route-info request: the arrays with status 200, a
\* body that lacks arrays with status 200 or 404, and a 404 that still
\* carries the arrays of a one-segment route.
RouteInfoResponses ==
  {[status_code |-> StatusOK, json |-> a] : a \in RouteInfoArrays}
    \cup {[status_code |-> StatusOK, json |-> NoRouteInfo],
          [status_code |-> StatusOK, json |-> StartTimesOnly],
          [status_code |-> 404, json |-> NoRouteInfo],
          [status_code |-> 404, json |-> RouteInfo(1)]}

(***************************************************************************)
(* Arguments and initial contents of data_dir.                             *)
(***************************************************************************)
Window(start, len, smear) ==
  [start_seconds |-> start, length |-> len, smear_seconds |-> smear]

Windows ==
  {Window(0, 30, 0), Window(10, 60, 0), Window(10, 30, 20), Window(70, 30, 0),
   Window(400, 60, 0)}

FileTypeChoices ==
  {<<"cameras", "ecameras", "logs">>, <<"logs">>, <<"cameras", "dcameras">>,
   <<"cameras", "xcamera">>}

InitialFiles ==
  {{}, {<<0, "fcamera.hevc">>}, {<<0, "rlog.bz2">>}, {<<0, "rlog">>},
   {<<0, "rlog.bz2">>, <<0, "rlog">>}}

\* The state of an invocation before its first statement.
Fresh ==
  /\ pc = "check_types"
  /\ route = <<>>
  /\ dongle_id = <<>>
  /\ segment_ids = <<>>
  /\ filelist = NoFileList
  /\ route_times = <<>>
  /\ requests = <<>>
  /\ queue = <<>>
  /\ inflight = {}
  /\ succeeded = {}
  /\ errors = {}
  /\ written = {}
  /\ bzip2_calls = <<>>
  /\ di = 1
  /\ err = NoError

Init ==
  /\ file_types \in FileTypeChoices
  /\ \E w \in Windows :
       /\ start_seconds = w.start_seconds
       /\ length = w.length
       /\ smear_seconds = w.smear_seconds
  /\ route_or_segment = ExampleSegment
  /\ fs \in InitialFiles
  /\ run = 1
  /\ Fresh

(***************************************************************************)
(* The steps of downloadSegments.                                          *)
(***************************************************************************)
Raise(e) == pc' = "failed" /\ err' = e

\* Lines 48-52: the first entry outside valid_file_types raises.
CheckFileTypesAcceptsAll ==
  /\ pc = "check_types"
  /\ pc' = "parse"
  /\ UNCHANGED <<args, parsed, fs, run, segment_ids, filelist, route_times, requests, queue,
                 inflight, succeeded, errors, written, bzip2_calls, di, err>>

CheckFileTypes ==
  /\ pc = "check_types"
  /\ IF InvalidTypes(file_types) # <<>>
       THEN Raise(Error("InvalidFileType", -1, InvalidTypes(file_types)[1], {}))
       ELSE pc' = "parse" /\ err' = err
  /\ UNCHANGED <<args, parsed, fs, run, segment_ids, filelist, route_times, requests, queue,
                 inflight, succeeded, errors, written, bzip2_calls, di>>

\* Lines 54-61.
ParseRoute ==
  /\ pc = "parse"
  /\ route' = ReSubSegment(route_or_segment)
  /\ dongle_id' = SplitFirst(ReSubSegment(route_or_segment), "|")
  /\ pc' = "map"
  /\ UNCHANGED <<args, fs, run, segment_ids, filelist, route_times, requests, queue,
                 inflight, succeeded, errors, written, bzip2_calls, di, err>>

\* Lines 63-72.
MapWindow ==
  /\ pc = "map"
  /\ segment_ids' = SegmentIds(start_seconds, length, smear_seconds)
  /\ pc' = "fetch_filelist"
  /\ UNCHANGED <<args, parsed, fs, run, filelist, route_times, requests, queue, inflight,
                 succeeded, errors, written, bzip2_calls, di, err>>

\* Lines 74-86: one request; any status but 200 raises.
FetchFileListUnchecked ==
  /\ pc = "fetch_filelist"
  /\ \E route_files_response \in FileListResponses :
       /\ requests' = Append(requests, Request("files", route_files_response.status_code))
       /\ filelist' = route_files_response.json
       /\ pc' = "fetch_routeinfo"
  /\ UNCHANGED <<args, parsed, fs, run, segment_ids, route_times, queue, inflight, succeeded,
                 errors, written, bzip2_calls, di, err>>

FetchFileList ==
  /\ pc = "fetch_filelist"
  /\ \E route_files_response \in FileListResponses :
       /\ requests' = Append(requests, Request("files", route_files_response.status_code))
       /\ IF route_files_response.status_code # StatusOK
            THEN Raise(Error("RouteInaccessible", -1, "", {})) /\ filelist' = filelist
            ELSE /\ filelist' = route_files_response.json
                 /\ pc' = "fetch_routeinfo"
                 /\ err' = err
  /\ UNCHANGED <<args, parsed, fs, run, segment_ids, route_times, queue, inflight, succeeded,
                 errors, written, bzip2_calls, di>>

\* Lines 94-95: route_info[...][start_segment] and [...][end_segment] raise
\* IndexError on a list that is too short.
LookupFails(route_info) ==
  \/ start_segment >= Len(route_info.segment_start_times)
  \/ end_segment >= Len(route_info.segment_end_times)

\* Lines 92-95 on a response: the status is not read; a missing key raises
\* KeyError and a short list IndexError, line 94 before line 95.
RouteInfoOutcome(route_info_response) ==
  LET route_info == route_info_response.json
  IN  IF "segment_start_times" \notin DOMAIN route_info
        THEN "KeyError"
        ELSE IF start_segment >= Len(route_info.segment_start_times)
               THEN "IndexError"
               ELSE IF "segment_end_times" \notin DOMAIN route_info
                      THEN "KeyError"
                      ELSE IF LookupFails(route_info) THEN "IndexError" ELSE "ok"

\* Lines 88-100: one request, then two list lookups by segment index.
FetchRouteInfo ==
  /\ pc = "fetch_routeinfo"
  /\ \E route_info_response \in RouteInfoResponses :
       /\ requests' =
            Append(requests, Request("routeinfo", route_info_response.status_code))
       /\ IF RouteInfoOutcome(route_info_response) # "ok"
            THEN /\ Raise(Error(RouteInfoOutcome(route_info_response), -1, "", {}))
                 /\ route_times' = route_times
            ELSE /\ route_times' =
                      <<route_info_response.json.segment_start_times[start_segment + 1],
                        route_info_response.json.segment_end_times[end_segment + 1]>>
                 /\ pc' = "validate"
                 /\ err' = err
  /\ UNCHANGED <<args, parsed, fs, run, segment_ids, filelist, queue, inflight, succeeded,
                 errors, written, bzip2_calls, di>>

\* Lines 102-136.
ValidateRefetches ==
  /\ pc = "validate"
  /\ requests' = Append(requests, Request("files", StatusOK))
  /\ LET missing == FirstMissing(filelist, file_types, segment_ids)
     IN  IF missing # <<>>
           THEN Raise(Error("MissingUpload", missing[1], missing[2], {}))
           ELSE pc' = "enqueue" /\ err' = err
  /\ UNCHANGED <<args, parsed, fs, run, segment_ids, filelist, route_times, queue,
                 inflight, succeeded, errors, written, bzip2_calls, di>>

Validate ==
  /\ pc = "validate"
  /\ LET missing == FirstMissing(filelist, file_types, segment_ids)
     IN  IF missing # <<>>
           THEN Raise(Error("MissingUpload", missing[1], missing[2], {}))
           ELSE pc' = "enqueue" /\ err' = err
  /\ UNCHANGED <<args, parsed, fs, run, segment_ids, filelist, route_times, requests, queue,
                 inflight, succeeded, errors, written, bzip2_calls, di>>

\* Lines 152-190: every task is enqueued before the batch is started.
Enqueue ==
  /\ pc = "enqueue"
  /\ queue' = EnqueueAll(filelist, file_types, segment_ids, fs)
  /\ pc' = "download"
  /\ UNCHANGED <<args, parsed, fs, run, segment_ids, filelist, route_times, requests, inflight,
                 succeeded, errors, written, bzip2_calls, di, err>>

(***************************************************************************)
(* Line 193: downloader.download().  The control thread stays at           *)
(* "download" while the pool runs at most max_conn transfers at a time.    *)
(***************************************************************************)
Path(task) == <<task.segment, task.filename>>

\* With overwrite unset or False an existing file is kept and nothing is
\* written.
KeepsNothing(task, files) == FALSE

KeepsExisting(task, files) == task.overwrite # "True" /\ Path(task) \in files

StartTransfer(i) ==
  /\ pc = "download"
  /\ i \in DOMAIN queue
  /\ i \notin inflight \cup succeeded \cup errors
  /\ Cardinality(inflight) < max_conn
  /\ inflight' = inflight \cup {i}
  /\ UNCHANGED <<args, parsed, fs, pc, run, segment_ids, filelist, route_times, requests, queue,
                 succeeded, errors, written, bzip2_calls, di, err>>

FinishTransfer(i, ok) ==
  /\ pc = "download"
  /\ i \in inflight
  /\ inflight' = inflight \ {i}
  /\ IF ok
       THEN /\ succeeded' = succeeded \cup {i}
            /\ errors' = errors
            /\ IF KeepsExisting(queue[i], fs)
                 THEN UNCHANGED <<fs, written>>
                 ELSE fs' = fs \cup {Path(queue[i])} /\ written' = written \cup {i}
       ELSE /\ errors' = errors \cup {i}
            /\ UNCHANGED <<fs, succeeded, written>>
  /\ UNCHANGED <<args, parsed, pc, run, segment_ids, filelist, route_times, requests, queue,
                 bzip2_calls, di, err>>

Terminated == succeeded \cup errors

\* Lines 193-197: download() returns once every transfer has ended.
DownloadReturnsEarly ==
  /\ pc = "download"
  /\ IF errors # {}
       THEN Raise(Error("DownloadFailed", -1, "", {queue[i].url : i \in errors}))
       ELSE pc' = "decompress" /\ err' = err
  /\ UNCHANGED <<args, parsed, fs, run, segment_ids, filelist, route_times, requests, queue,
                 inflight, succeeded, errors, written, bzip2_calls, di>>

DownloadReturnRollsBack ==
  /\ pc = "download"
  /\ Terminated = DOMAIN queue
  /\ IF errors # {}
       THEN /\ Raise(Error("DownloadFailed", -1, "", {queue[i].url : i \in errors}))
            /\ fs' = fs \ {Path(queue[i]) : i \in written}
       ELSE pc' = "decompress" /\ err' = err /\ fs' = fs
  /\ UNCHANGED <<args, parsed, run, segment_ids, filelist, route_times, requests, queue,
                 inflight, succeeded, errors, written, bzip2_calls, di>>

DownloadReturn ==
  /\ pc = "download"
  /\ Terminated = DOMAIN queue
  /\ IF errors # {}
       THEN Raise(Error("DownloadFailed", -1, "", {queue[i].url : i \in errors}))
       ELSE pc' = "decompress" /\ err' = err
  /\ UNCHANGED <<args, parsed, fs, run, segment_ids, filelist, route_times, requests, queue,
                 inflight, succeeded, errors, written, bzip2_calls, di>>

(***************************************************************************)
(* Lines 199-212: one iteration of the decompression loop.  bzip2 -d       *)
(* replaces rlog.bz2 by rlog when it succeeds and changes nothing when it  *)
(* fails; subprocess.run is called without check and its result is         *)
(* dropped, so the loop goes on either way.                                *)
(***************************************************************************)
\* Lines 211-212: neither rlog nor rlog.bz2 is in the segment directory.
MissingArchiveSkipped(segment_id) ==
  /\ di' = di + 1
  /\ UNCHANGED <<fs, pc, bzip2_calls, err>>

MissingArchive(segment_id) ==
  /\ Raise(Error("LogArchiveMissing", segment_id, "logs", {}))
  /\ UNCHANGED <<fs, bzip2_calls, di>>

Decompress ==
  /\ pc = "decompress"
  /\ IF di > Len(segment_ids) \/ "logs" \notin Range(file_types)
       THEN pc' = "done" /\ UNCHANGED <<fs, bzip2_calls, di, err>>
       ELSE LET segment_id == segment_ids[di]
            IN  IF <<segment_id, "rlog">> \in fs
                  THEN /\ di' = di + 1
                       /\ UNCHANGED <<fs, pc, bzip2_calls, err>>
                  ELSE IF <<segment_id, "rlog.bz2">> \in fs
                         THEN /\ bzip2_calls' = Append(bzip2_calls, segment_id)
                              /\ \E exit_ok \in BOOLEAN :
                                   fs' = IF exit_ok
                                           THEN (fs \ {<<segment_id, "rlog.bz2">>})
                                                  \cup {<<segment_id, "rlog">>}
                                           ELSE fs
                              /\ di' = di + 1
                              /\ UNCHANGED <<pc, err>>
                         ELSE MissingArchive(segment_id)
  /\ UNCHANGED <<args, parsed, run, segment_ids, filelist, route_times, requests, queue,
                 inflight, succeeded, errors, written>>

(***************************************************************************)
(* The tool is run again with the same arguments on the same data_dir      *)
(* after an invocation that returned normally.                             *)
(***************************************************************************)
Rerun ==
  /\ pc = "done"
  /\ run < MaxRuns
  /\ run' = run + 1
  /\ pc' = "check_types"
  /\ segment_ids' = <<>>
  /\ filelist' = NoFileList
  /\ route_times' = <<>>
  /\ requests' = <<>>
  /\ queue' = <<>>
  /\ inflight' = {}
  /\ succeeded' = {}
  /\ errors' = {}
  /\ written' = {}
  /\ bzip2_calls' = <<>>
  /\ di' = 1
  /\ err' = NoError
  /\ route' = <<>>
  /\ dongle_id' = <<>>
  /\ UNCHANGED <<args, fs>>

Next ==
  \/ CheckFileTypes
  \/ ParseRoute
  \/ MapWindow
  \/ FetchFileList
  \/ FetchRouteInfo
  \/ Validate
  \/ Enqueue
  \/ \E i \in DOMAIN queue : StartTransfer(i)
  \/ \E i \in DOMAIN queue, ok \in BOOLEAN : FinishTransfer(i, ok)
  \/ DownloadReturn
  \/ Decompress
  \/ Rerun

Spec == Init /\ [][Next]_vars

(***************************************************************************)
(* data_dir is shared with other processes: the exists() tests of lines    *)
(* 204 and 208 read whatever is on disk at that moment.  Here another      *)
(* process removes the archive of a segment that is still to be            *)
(* decompressed.                                                           *)
(***************************************************************************)
ExternalRemove ==
  /\ pc = "decompress"
  /\ \E i \in di..Len(segment_ids) :
       /\ <<segment_ids[i], "rlog.bz2">> \in fs
       /\ fs' = fs \ {<<segment_ids[i], "rlog.bz2">>}
  /\ UNCHANGED <<args, parsed, pc, run, segment_ids, filelist, route_times, requests, queue,
                 inflight, succeeded, errors, written, bzip2_calls, di, err>>

SharedDirInit ==
  /\ file_types \in {<<"logs">>, <<"cameras", "ecameras", "logs">>}
  /\ \E w \in {Window(0, 30, 0), Window(10, 60, 0)} :
       /\ start_seconds = w.start_seconds
       /\ length = w.length
       /\ smear_seconds = w.smear_seconds
  /\ route_or_segment = ExampleSegment
  /\ fs \in InitialFiles
  /\ run = 1
  /\ Fresh

SharedDirNext == Next \/ ExternalRemove

SharedDirSpec == SharedDirInit /\ [][SharedDirNext]_vars

(***************************************************************************)
(* The window mapper on its own, over a range of arguments.                *)
(***************************************************************************)
MapInit ==
  /\ file_types = <<"cameras", "ecameras", "logs">>
  /\ start_seconds \in (0..MaxStartSeconds) \cup {400}
  /\ length \in 1..MaxLength
  /\ smear_seconds \in 0..MaxSmear
  /\ route_or_segment = ExampleSegment
  /\ fs = {}
  /\ run = 1
  /\ Fresh

MapStart == pc = "check_types" /\ CheckFileTypes

MapNext == MapStart \/ ParseRoute \/ MapWindow

MapSpec == MapInit /\ [][MapNext]_vars

(***************************************************************************)
(* Route parsing on its own, over every short string of an alphabet that   *)
(* has a letter, the separators, a digit and a newline.                    *)
(***************************************************************************)
RouteChars == {"a", "|", "-", "7", "\n"}

RouteStrings == UNION {[1..n -> RouteChars] : n \in 0..MaxRouteLen}

ParseInit ==
  /\ file_types = <<"cameras", "ecameras", "logs">>
  /\ start_seconds = 0
  /\ length = 30
  /\ smear_seconds = 0
  /\ route_or_segment \in RouteStrings \cup {ExampleSegment}
  /\ fs = {}
  /\ run = 1
  /\ Fresh

ParseNext == MapStart \/ ParseRoute

ParseSpec == ParseInit /\ [][ParseNext]_vars

(***************************************************************************)
(* Properties.                                                             *)
(***************************************************************************)
CameraFiles == {FileName[k] : k \in CameraKinds}

IsCameraTask(task) == task.filename \in CameraFiles

IsLogTask(task) == task.filename = "rlog.bz2"

Requested(kind) == kind \in Range(file_types)

\* The manifest has been received by this invocation.
HaveManifest == Len(requests) >= 1 /\ err.kind # "RouteInaccessible"

NothingStarted == inflight = {} /\ succeeded = {} /\ errors = {} /\ written = {}

Ended == pc \in {"done", "failed"}

\* C1: when some requested (segment, kind) has no matching URL in the
\* manifest, the run fails with the missing-upload error, no task is ever
\* enqueued and no transfer is ever started.
C1_MissingUploadRejected ==
  (HaveManifest /\ FirstMissing(filelist, file_types, segment_ids) # <<>>)
    => /\ queue = <<>>
       /\ NothingStarted
       /\ pc # "done"
       /\ pc = "failed" => err.kind = "MissingUpload"

C3_DecompressAfterBatch ==
  /\ (pc \in {"decompress", "done"} \/ err.kind \in {"DownloadFailed", "LogArchiveMissing"})
       => (inflight = {} /\ Terminated = DOMAIN queue)
  /\ (pc = "decompress" \/ bzip2_calls # <<>>) => (inflight = {} /\ errors = {})

C3_Witness ==
  /\ pc = "decompress"
  /\ bzip2_calls # <<>>
  /\ Cardinality(written) >= 4

\* C4: an invocation that follows, with the same arguments, an invocation
\* that returned normally transfers no camera file and decompresses nothing.
C4_RerunDoesNoWork ==
  run > 1 => /\ \A i \in written : ~IsCameraTask(queue[i])
             /\ bzip2_calls = <<>>

\* C5: once the batch has completed with a failed transfer the run has
\* failed with the download-failed error carrying every failed transfer,
\* every file the batch downloaded is still on disk and nothing was
\* decompressed.
C5_DownloadFailedKeepsFiles ==
  (errors # {} /\ pc # "download")
    => /\ pc = "failed"
       /\ err.kind = "DownloadFailed"
       /\ err.errors = {queue[i].url : i \in errors}
       /\ Cardinality(err.errors) = Cardinality(errors)
       /\ \A i \in succeeded : Path(queue[i]) \in fs
       /\ bzip2_calls = <<>>

C5_Witness ==
  /\ pc = "failed"
  /\ err.kind = "DownloadFailed"
  /\ Cardinality(errors) >= 2
  /\ written # {}

\* C6: with an entry of file_types outside {cameras, ecameras, dcameras,
\* logs} the run fails with the invalid-file-type error and issues no HTTP
\* request: no file list, no route info, no transfer.
C6_InvalidTypeBeforeNetwork ==
  InvalidTypes(file_types) # <<>>
    => /\ requests = <<>>
       /\ queue = <<>>
       /\ NothingStarted
       /\ pc \in {"check_types", "failed"}
       /\ pc = "failed" => err.kind = "InvalidFileType"

C6_Witness ==
  /\ pc = "failed"
  /\ err.kind = "InvalidFileType"
  /\ err.file_type = "xcamera"
  /\ requests = <<>>

\* C7 as stated: no camera, wide-camera or driver-camera task is enqueued
\* for a file that already exists at the destination.
C7_ExistingCameraNotEnqueued ==
  (pc = "download" /\ NothingStarted)
    => \A i \in DOMAIN queue :
         (IsCameraTask(queue[i]) /\ queue[i].overwrite # "True") => Path(queue[i]) \notin fs

\* C7 as amended: every requested camera, wide-camera or driver-camera file
\* of every requested segment is enqueued with overwrite=False, whether or
\* not the file exists; the transfer of a task whose file already exists
\* writes nothing and the file stays.
C7_ExistingCameraKept ==
  [][/\ pc = "enqueue"
          => \A s \in Range(segment_ids), k \in CameraKinds :
               Requested(k)
                 => \E i \in DOMAIN queue' :
                      /\ queue'[i].segment = s
                      /\ queue'[i].filename = FileName[k]
                      /\ queue'[i].overwrite = "False"
     /\ \A i \in inflight :
          (IsCameraTask(queue[i]) /\ Path(queue[i]) \in fs)
            => (i \notin written' /\ Path(queue[i]) \in fs')]_vars

C7_Witness ==
  \E i \in succeeded :
    /\ IsCameraTask(queue[i])
    /\ i \notin written
    /\ Path(queue[i]) \in fs
    /\ run = 1

\* C8: when logs are requested, the log task of a requested segment is
\* enqueued if and only if neither rlog.bz2 nor rlog is in the segment's
\* directory when the batch is built; no log is fetched into a directory
\* that holds rlog.
C8_LogEnqueuedIffAbsent ==
  [][/\ (pc = "enqueue" /\ Requested("logs"))
          => \A s \in Range(segment_ids) :
               (\E i \in DOMAIN queue' : queue'[i].segment = s /\ IsLogTask(queue'[i]))
                 <=> (<<s, "rlog.bz2">> \notin fs /\ <<s, "rlog">> \notin fs)
     /\ \A i \in written' \ written :
          IsLogTask(queue[i]) => <<queue[i].segment, "rlog">> \notin fs]_vars

C8_Witness ==
  /\ pc = "download"
  /\ Requested("logs")
  /\ segment_ids = <<0, 1>>
  /\ <<0, "rlog">> \in fs
  /\ \A i \in DOMAIN queue : IsLogTask(queue[i]) => queue[i].segment = 1
  /\ \E i \in written : IsLogTask(queue[i])

\* C9: in the decompression loop, a segment with rlog.bz2 and no rlog is
\* decompressed and has rlog afterwards; a segment with rlog is skipped,
\* also when rlog.bz2 is there.
C9_DecompressProducesRlog ==
  [][(pc = "decompress" /\ Requested("logs") /\ di <= Len(segment_ids))
       => LET s == segment_ids[di]
          IN  /\ (<<s, "rlog.bz2">> \in fs /\ <<s, "rlog">> \notin fs)
                   => (bzip2_calls' = Append(bzip2_calls, s) /\ <<s, "rlog">> \in fs')
              /\ <<s, "rlog">> \in fs => (bzip2_calls' = bzip2_calls /\ fs' = fs)]_vars

\* C10: two runs that differ only in the route-info arrays they receive
\* take the same path: at the one place the arrays are read, every two
\* responses lead to the same outcome.
C10_RouteInfoNotControlFlow ==
  pc = "fetch_routeinfo"
    => \A a, b \in RouteInfoArrays : LookupFails(a) = LookupFails(b)

\* C11: a route-info response with a non-success status, or without the
\* segment_start_times / segment_end_times arrays, ends the run at the
\* route-info fetch; nothing is validated, enqueued or transferred after it.
C11_RouteInfoUnavailable ==
  (Len(requests) = 2 /\ (requests[2].status_code # StatusOK \/ err.kind = "KeyError"))
    => /\ pc = "failed"
       /\ err.kind \in {"RouteInfoUnavailable", "KeyError", "IndexError"}
       /\ queue = <<>>
       /\ NothingStarted

\* Position of a kind in the order forward camera, wide camera, driver
\* camera, log.
KindRank == [cameras |-> 1, ecameras |-> 2, dcameras |-> 3, logs |-> 4]

HasUpload(s, k) ==
  \E i \in DOMAIN filelist[k] : UrlContains(filelist[k][i], s, FileName[k])

IsMissing(s, k) == Requested(k) /\ ~HasUpload(s, k)

PastValidation == pc \in {"enqueue", "download", "decompress", "done"}

\* C12: the (segment, kind) of the missing-upload error is the first missing
\* requested pair, segments ascending and within a segment the kinds in the
\* order forward camera, wide camera, driver camera, log; it is determined
\* by the manifest and the request.
C12_FirstMissingReported ==
  /\ (pc = "failed" /\ err.kind = "MissingUpload")
       => /\ err.segment \in Range(segment_ids)
          /\ err.file_type \in DOMAIN KindRank
          /\ IsMissing(err.segment, err.file_type)
          /\ \A s \in Range(segment_ids), k \in DOMAIN KindRank :
               IsMissing(s, k)
                 => \/ s > err.segment
                    \/ s = err.segment /\ KindRank[k] >= KindRank[err.file_type]
  /\ PastValidation
       => \A s \in Range(segment_ids), k \in DOMAIN KindRank : ~IsMissing(s, k)

C12_Witness ==
  /\ pc = "failed"
  /\ err.kind = "MissingUpload"
  /\ err.segment = 0
  /\ err.file_type = "ecameras"
  /\ IsMissing(1, "cameras")
  /\ IsMissing(1, "logs")

\* "--" followed by one or more digits ends the string.
HasSegmentSuffix(s) ==
  \E k \in 1..(Len(s) - 2) :
    /\ s[Len(s) - k - 1] = "-"
    /\ s[Len(s) - k] = "-"
    /\ \A i \in (Len(s) - k + 1)..Len(s) : IsDigit(s[i])

\* No segment suffix at the end of the string or before its final newline.
Canonical(s) ==
  /\ ~HasSegmentSuffix(s)
  /\ ~(s # <<>> /\ s[Len(s)] = "\n" /\ HasSegmentSuffix(Front(s)))

AllDigits(s) == s # <<>> /\ \A i \in DOMAIN s : IsDigit(s[i])

C14_ExactlyTwoReads == Ended => Len(requests) = 2

\* C14 (amended): a run makes at most two manifest-level reads, the file
\* list first and the route info second, whatever the number of segments; a
\* run that fails on its file types makes none, a run whose file-list
\* request is refused makes one, and every other run that has got past the
\* route-info request has made exactly two.
C14_AtMostTwoReads ==
  /\ Len(requests) <= 2
  /\ \A i \in DOMAIN requests : requests[i].endpoint = <<"files", "routeinfo">>[i]
  /\ (pc = "failed" /\ err.kind = "InvalidFileType") => requests = <<>>
  /\ (pc = "failed" /\ err.kind = "RouteInaccessible") => Len(requests) = 1
  /\ (pc = "failed" /\ err.kind \notin {"InvalidFileType", "RouteInaccessible"})
       => Len(requests) = 2
  /\ pc \in {"validate", "enqueue", "download", "decompress", "done"}
       => Len(requests) = 2

C14_Witness ==
  /\ pc = "done"
  /\ Len(segment_ids) = 2
  /\ Len(queue) >= 4
  /\ Len(requests) = 2

\* C15: when the status of the file-list response is not success, the run
\* fails with the route-inaccessible error; no route-info request is made,
\* no download is enqueued or started and nothing is decompressed.
C15_RouteInaccessible ==
  (Len(requests) >= 1 /\ requests[1].status_code # StatusOK)
    => /\ pc = "failed"
       /\ err.kind = "RouteInaccessible"
       /\ Len(requests) = 1
       /\ route_times = <<>>
       /\ queue = <<>>
       /\ NothingStarted
       /\ bzip2_calls = <<>>

C15_Witness ==
  /\ pc = "failed"
  /\ err.kind = "RouteInaccessible"
  /\ requests = <<Request("files", 404)>>
  /\ fs # {}

\* The decompression loop is at a segment that has neither rlog nor
\* rlog.bz2, and logs were requested.
AtMissingArchive ==
  /\ pc = "decompress"
  /\ di <= Len(segment_ids)
  /\ Requested("logs")
  /\ <<segment_ids[di], "rlog">> \notin fs
  /\ <<segment_ids[di], "rlog.bz2">> \notin fs

\* C16: the step of the decompression loop at a requested segment that has
\* neither rlog nor rlog.bz2 fails the run with the log-archive-missing
\* error for that segment and leaves every file in place, so the segments
\* before it keep their decompressed rlog.
C16_LogArchiveMissing ==
  [][(AtMissingArchive /\ <<pc, di>>' # <<pc, di>>)
       => /\ pc' = "failed"
          /\ err'.kind = "LogArchiveMissing"
          /\ err'.segment = segment_ids[di]
          /\ fs' = fs
          /\ \A j \in 1..(di - 1) :
               <<segment_ids[j], "rlog">> \in fs => <<segment_ids[j], "rlog">> \in fs']_vars

C16_Witness ==
  /\ pc = "failed"
  /\ err.kind = "LogArchiveMissing"
  /\ Len(segment_ids) = 2
  /\ err.segment = segment_ids[2]
  /\ bzip2_calls = <<segment_ids[1]>>
  /\ <<segment_ids[1], "rlog">> \in fs

\* The tasks of the batch for one segment and one file kind.
TasksOf(s, k) ==
  {i \in DOMAIN queue : queue[i].segment = s /\ queue[i].filename = FileName[k]}

\* C17: the batch has at most one task for a segment and a kind, any two of
\* its tasks have different destination paths, and so have any two
\* transfers that are running at the same time.
C17_DistinctDestinations ==
  /\ \A s \in Range(segment_ids), k \in DOMAIN KindRank : Cardinality(TasksOf(s, k)) <= 1
  /\ \A i, j \in DOMAIN queue : i # j => Path(queue[i]) # Path(queue[j])
  /\ \A i, j \in inflight : i # j => Path(queue[i]) # Path(queue[j])

C17_Witness ==
  /\ pc = "download"
  /\ Len(Matches(filelist.cameras, 0, "fcamera.hevc")) = 2
  /\ Len(segment_ids) = 2
  /\ \E i, j \in inflight :
       /\ i # j
       /\ queue[i].filename = queue[j].filename
       /\ queue[i].segment # queue[j].segment

\* url is the first entry of urls that contains /<segment_id>/<name>.
IsFirstMatch(url, urls, segment_id, name) ==
  \E n \in DOMAIN urls :
    /\ urls[n] = url
    /\ UrlContains(urls[n], segment_id, name)
    /\ \A m \in 1..(n - 1) : ~UrlContains(urls[m], segment_id, name)

\* The batch of this invocation has been built.
QueueBuilt ==
  \/ pc \in {"download", "decompress", "done"}
  \/ pc = "failed" /\ err.kind \in {"DownloadFailed", "LogArchiveMissing"}

\* C18: every task of the batch is for a segment of start_segment ..
\* end_segment and for a kind of file_types, and its URL is the first URL of
\* that kind in the manifest that contains the segment index followed by the
\* file name; once the batch is built, every requested camera kind has
\* exactly one task in every segment of the window.
C18_TasksAreRequested ==
  /\ \A i \in DOMAIN queue :
       /\ queue[i].segment \in start_segment..end_segment
       /\ \E k \in DOMAIN KindRank :
            /\ queue[i].filename = FileName[k]
            /\ Requested(k)
            /\ IsFirstMatch(queue[i].url, filelist[k], queue[i].segment, FileName[k])
  /\ QueueBuilt
       => \A s \in start_segment..end_segment, k \in CameraKinds :
            Requested(k) => Cardinality(TasksOf(s, k)) = 1

C18_Witness ==
  /\ pc = "download"
  /\ ~Requested("ecameras")
  /\ Len(Matches(filelist.ecameras, 0, "ecamera.hevc")) = 2
  /\ Len(Matches(filelist.cameras, 1, "fcamera.hevc")) = 2
  /\ \E i \in DOMAIN queue :
       /\ queue[i].segment = 1
       /\ queue[i].url = Url(1, "cameras", "sigA")

\* C19: when the function returns without error and logs were requested,
\* every segment of the window has a decompressed rlog in its directory,
\* also when bzip2 failed for some segment.
C19_ReturnImpliesRlog ==
  (pc = "done" /\ Requested("logs"))
    => \A s \in Range(segment_ids) : <<s, "rlog">> \in fs

\* C20: validation fails only for a kind of file_types that has no matching
\* URL for a segment of the window; when every requested kind has one for
\* every segment, validation passes, whatever else the manifest lacks.
C20_UnrequestedKindIgnored ==
  [][pc = "validate"
       => IF \E s \in Range(segment_ids), k \in DOMAIN KindRank : IsMissing(s, k)
            THEN /\ pc' = "failed"
                 /\ err'.kind = "MissingUpload"
                 /\ err'.segment \in Range(segment_ids)
                 /\ Requested(err'.file_type)
                 /\ ~HasUpload(err'.segment, err'.file_type)
            ELSE pc' = "enqueue" /\ err' = NoError]_vars

C20_Witness ==
  /\ pc = "enqueue"
  /\ 0 \in Range(segment_ids)
  /\ ~Requested("dcameras")
  /\ ~HasUpload(0, "dcameras")
  /\ HasUpload(0, "cameras")

====
